---- MODULE Spec2Model ----
(***************************************************************************)
(* A model of testmon/testmon_core.py: the change analyzer (unaffected),   *)
(* the dependency index (TestmonData) over its sqlite store, and the       *)
(* tracking session (Testmon).                                             *)
(*                                                                         *)
(* Python values are represented as follows.  A dict is a function whose   *)
(* domain is its key set (the empty dict is <<>>); a list is a sequence;   *)
(* d.update(c) is c @@ d.  A value that may be a number, a list or None    *)
(* (an entry of mtimes) is tagged: [num |-> n], [list |-> s], [none |->    *)
(* TRUE].                                                                  *)
(***************************************************************************)
EXTENDS Integers, Sequences, FiniteSets, TLC

VARIABLES
    fs,                 \* the source tree: file -> [exists, mtime, rev]
    clock,              \* the file system's modification clock
    alldata,            \* committed rows of table alldata: dataid -> blob
    txn,                \* rows written in the connection's open transaction
    pc,                 \* position of the hosting process
    variant,            \* TestmonData.variant
    mtimes,             \* TestmonData.mtimes
    node_data,          \* TestmonData.node_data
    reports,            \* TestmonData.reports
    lastfailed,         \* TestmonData.lastfailed
    changed_files,      \* TestmonData.changed_files: file -> Module
    changed_node_data,  \* TestmonData.changed_node_data
    changed_reports,    \* TestmonData.changed_reports
    changed_mtimes,     \* TestmonData.changed_mtimes
    unaffected_nodeids, \* TestmonData.unaffected_nodeids (Unset before read_fs)
    unaffected_files,   \* TestmonData.unaffected_files
    loc,                \* locals of the method being executed
    exc,                \* the exception that reached the caller ("none" if none)
    datafile,           \* whether the file .testmondata exists
    ctor_variant,       \* the variant argument TestmonData was constructed with
    runs,               \* number of index objects opened so far
    tm,                 \* the Testmon object: [running, data, sub_cov_file]
    environ,            \* os.environ.get('COVERAGE_PROCESS_START')
    rcfiles,            \* the subprocess configuration files on disk
    peer,               \* another Testmon object of the process (Unset if none)
    events              \* what happened so far in the current tracked call

fsVars    == <<fs, clock>>
storeVars == <<alldata, txn, datafile>>
memVars   == <<variant, ctor_variant, mtimes, node_data, reports, lastfailed>>
stageVars == <<changed_files, changed_node_data, changed_reports, changed_mtimes>>
unaffVars == <<unaffected_nodeids, unaffected_files>>
trackVars == <<tm, environ, rcfiles, events, peer>>
vars == <<fsVars, storeVars, pc, memVars, stageVars, unaffVars, loc, exc, runs, trackVars>>

----------------------------------------------------------------------------
(* Bounds and universes *)

\* the change analyzer's inputs are drawn from checksums 1 .. NumChecksums
NumChecksums == 2
\* the modification clock of the source tree stops at MaxClock
MaxClock == 2
\* at most MaxRuns index objects are opened, one after another
MaxRuns == 3

Files == {"a.py", "t.py"}
Nodeids == {"t.py::t1", "t.py::t2"}
\* the tests run over the changing source tree
RunTests == {"t.py::t1"}
RangeS(s) == {s[i] : i \in DOMAIN s}

\* some enumeration of a finite set (the iteration order of a set or dict)
ToList(S) == CHOOSE s \in [1..Cardinality(S) -> S] : RangeS(s) = S

Unset == [unset |-> TRUE]
None == [none |-> TRUE]
Num(n) == [num |-> n]
IsNum(v) == DOMAIN v = {"num"}

\* d.get(k): None when the key is absent
Get(d, k) == IF k \in DOMAIN d THEN d[k] ELSE None

\* del d[k]
Del(d, k) == [x \in DOMAIN d \ {k} |-> d[x]]

----------------------------------------------------------------------------
(* testmon.process_code: Module and checksum_coverage (sections 4.A, 4.B) *)

\* A Block: [start, end, checksum].  A Module holds the blocks of one source text.
Block(s, e, c) == [start |-> s, end |-> e, checksum |-> c]

MkModule(bs) == [blocks |-> bs]

\* Module.checksums: the file's fingerprint, in block order
checksums(module) == [i \in DOMAIN module.blocks |-> module.blocks[i].checksum]

\* checksum_coverage(blocks, lines): checksums of the blocks whose line range
\* meets lines, in block order
RECURSIVE checksum_coverage(_, _)
checksum_coverage(blocks, lines) ==
    IF blocks = <<>> THEN <<>>
    ELSE LET b == Head(blocks)
             rest == checksum_coverage(Tail(blocks), lines)
         IN IF \E l \in lines : b.start <= l /\ l <= b.end
            THEN <<b.checksum>> \o rest
            ELSE rest

----------------------------------------------------------------------------
(* flip_dictionary and unaffected *)

flip_dictionary(nd) ==
    [f \in UNION {DOMAIN nd[n] : n \in DOMAIN nd} |->
        [n \in {m \in DOMAIN nd : f \in DOMAIN nd[m]} |-> nd[n][f]]]

\* the loop body with a test for equal checksum sets in place of containment
unaffected_body_exact(st, file_data, cf, file, nodeid) ==
    IF st.raised THEN st
    ELSE IF RangeS(file_data[file][nodeid]) # RangeS(checksums(cf[file]))
         THEN IF file \notin DOMAIN st.files \/ nodeid \notin DOMAIN st.nodes
              THEN [st EXCEPT !.raised = TRUE]
              ELSE [raised |-> FALSE,
                    nodes |-> Del(st.nodes, nodeid),
                    files |-> Del(st.files, file)]
         ELSE st

\* One pass of the inner loop body (lines 45-47) for the pair (file, nodeid).
\* st = [raised, nodes, files]; a del of an absent key raises KeyError.
unaffected_body(st, file_data, cf, file, nodeid) ==
    IF st.raised THEN st
    ELSE IF RangeS(file_data[file][nodeid]) \ RangeS(checksums(cf[file])) # {}
         THEN IF file \notin DOMAIN st.files \/ nodeid \notin DOMAIN st.nodes
              THEN [st EXCEPT !.raised = TRUE]
              ELSE [raised |-> FALSE,
                    nodes |-> Del(st.nodes, nodeid),
                    files |-> Del(st.files, file)]
         ELSE st

RECURSIVE unaffected_inner(_, _, _, _, _)
unaffected_inner(st, file_data, cf, file, nodeids) ==
    IF nodeids = <<>> THEN st
    ELSE unaffected_inner(unaffected_body(st, file_data, cf, file, Head(nodeids)),
                          file_data, cf, file, Tail(nodeids))

RECURSIVE unaffected_outer(_, _, _, _)
unaffected_outer(st, file_data, cf, files) ==
    IF files = <<>> THEN st
    ELSE unaffected_outer(
            unaffected_inner(st, file_data, cf, Head(files),
                             ToList(DOMAIN file_data[Head(files)])),
            file_data, cf, Tail(files))

\* unaffected(node_data, changed_files): [raised, nodes, files]; when raised
\* is TRUE the call ended in KeyError and returned nothing.
unaffected(nd, cf) ==
    LET file_data == flip_dictionary(nd)
    IN unaffected_outer([raised |-> FALSE, nodes |-> nd, files |-> file_data],
                        file_data, cf,
                        ToList(DOMAIN cf \cap DOMAIN file_data))

----------------------------------------------------------------------------
(* The source tree *)

\* The source texts a file goes through, as the blocks the parser makes of
\* them: 1 is the first text; 2 changes its first block; 3 adds a block to 1.
Revs == {1, 2, 3}
RevBlocks(r) ==
    CASE r = 1 -> <<Block(1, 1, 1), Block(2, 2, 2)>>
      [] r = 2 -> <<Block(1, 1, 3), Block(2, 2, 2)>>
      [] OTHER -> <<Block(1, 1, 1), Block(2, 2, 2), Block(3, 3, 4)>>

\* Module(file_name=file): the parse of the text on disk (OSError when the
\* file is missing, which the callers below test with exists first)
Module(file) == MkModule(RevBlocks(fs[file].rev))

exists(file) == fs[file].exists
getmtime(file) == Num(fs[file].mtime)

\* the test's own source file: os.path.join(rootdir, nodeid).split("::", 1)[0]
NodeFile(nodeid) == "t.py"

\* a source file is written (created, edited or touched)
EditFile(f, r) ==
    /\ clock < MaxClock
    /\ clock' = clock + 1
    /\ fs' = [fs EXCEPT ![f] = [exists |-> TRUE, mtime |-> clock + 1, rev |-> r]]

\* a source file is deleted
DeleteFile(f) ==
    /\ fs[f].exists
    /\ fs' = [fs EXCEPT ![f].exists = FALSE]
    /\ clock' = clock

----------------------------------------------------------------------------
(* The store: json, zlib and table alldata *)

Attributes == {"mtimes", "node_data", "lastfailed", "reports"}

JNum(n) == [number |-> n]
JStr(x) == [string |-> x]
JArr(x) == [array |-> x]
JObj(f) == [object |-> f]

\* json.dumps(data), for the shape of each attribute: a dict becomes an
\* object, a list an array, a number a number, a str a string
json_dumps(attribute, data) ==
    CASE attribute = "mtimes" ->
            JObj([k \in DOMAIN data |->
                    IF IsNum(data[k]) THEN JNum(data[k].num)
                    ELSE JArr([i \in DOMAIN data[k].list |-> JNum(data[k].list[i])])])
      [] attribute = "node_data" ->
            JObj([n \in DOMAIN data |->
                    JObj([f \in DOMAIN data[n] |->
                            JArr([i \in DOMAIN data[n][f] |-> JNum(data[n][f][i])])])])
      [] attribute = "lastfailed" -> JArr([i \in DOMAIN data |-> JStr(data[i])])
      [] OTHER -> JObj([n \in DOMAIN data |-> JStr(data[n])])

\* json.loads(text)
json_loads(attribute, j) ==
    CASE attribute = "mtimes" ->
            [k \in DOMAIN j.object |->
                IF DOMAIN j.object[k] = {"number"} THEN Num(j.object[k].number)
                ELSE [list |-> [i \in DOMAIN j.object[k].array |->
                                    j.object[k].array[i].number]]]
      [] attribute = "node_data" ->
            [n \in DOMAIN j.object |->
                [f \in DOMAIN j.object[n].object |->
                    [i \in DOMAIN j.object[n].object[f].array |->
                        j.object[n].object[f].array[i].number]]]
      [] attribute = "lastfailed" -> [i \in DOMAIN j.array |-> j.array[i].string]
      [] OTHER -> [n \in DOMAIN j.object |-> j.object[n].string]

zlib_compress(x) == [zlib |-> x]
zlib_decompress(b) == b.zlib

\* the rows the connection sees: its own uncommitted writes over the table
View == txn @@ alldata

\* a key that leaves the variant out
DataId_shared(v, attribute) == "default" \o ":" \o attribute

\* _fetch_attribute, line 175, and _write_attribute, line 183: the key of a row
DataId(v, attribute) == v \o ":" \o attribute

\* _fetch_attribute applied to the rows `rows` by an index of variant v
_fetch_attribute(rows, v, attribute, default) ==
    IF DataId(v, attribute) \in DOMAIN rows
    THEN json_loads(attribute, zlib_decompress(rows[DataId(v, attribute)]))
    ELSE default

\* _write_attribute without its UPDATE: a row that exists is kept
_write_attribute_insert_only(rows, v, attribute, data) ==
    LET dataid == DataId(v, attribute)
        compressed_data_buffer == zlib_compress(json_dumps(attribute, data))
    IN IF dataid \in DOMAIN rows
       THEN rows
       ELSE (dataid :> compressed_data_buffer) @@ rows

\* _write_attribute: the rows of the transaction after UPDATE ... WHERE
\* dataid=?, and INSERT when no row was updated
_write_attribute(rows, v, attribute, data) ==
    LET dataid == DataId(v, attribute)
        compressed_data_buffer == zlib_compress(json_dumps(attribute, data))
    IN IF dataid \in DOMAIN rows
       THEN [rows EXCEPT ![dataid] = compressed_data_buffer]
       ELSE (dataid :> compressed_data_buffer) @@ rows

\* the default of each attribute in read_data
Default(attribute) == <<>>

----------------------------------------------------------------------------
(* TestmonData *)

Str(x) == [str |-> x]
\* the truth value of a variant argument: None and '' are false
Truthy(v) == v # None /\ v # Str("")

\* __init__, line 145: the name the index stores its rows under
EffVariant(varg) == IF Truthy(varg) THEN varg.str ELSE "default"

\* __init__ and init_connection: sqlite3.connect creates the file, and
\* init_tables the empty table, when the file is new
TestmonData_init(varg) ==
    /\ pc = "idle"
    /\ runs < MaxRuns
    /\ runs' = runs + 1
    /\ variant' = EffVariant(varg)
    /\ ctor_variant' = varg
    /\ datafile' = TRUE
    /\ mtimes' = <<>> /\ node_data' = <<>> /\ reports' = <<>> /\ lastfailed' = <<>>
    /\ changed_files' = <<>> /\ changed_node_data' = <<>>
    /\ changed_reports' = <<>> /\ changed_mtimes' = <<>>
    /\ pc' = "constructed"
    /\ exc' = "none"
    /\ UNCHANGED <<fsVars, alldata, txn, unaffVars, loc, trackVars>>

\* read_fs, line 251: read_data; the loop then goes over file_data()
read_data ==
    /\ pc = "constructed"
    /\ mtimes' = _fetch_attribute(View, variant, "mtimes", Default("mtimes"))
    /\ node_data' = _fetch_attribute(View, variant, "node_data", Default("node_data"))
    /\ reports' = _fetch_attribute(View, variant, "reports", Default("reports"))
    /\ lastfailed' = _fetch_attribute(View, variant, "lastfailed", Default("lastfailed"))
    /\ loc' = [todo |-> DOMAIN flip_dictionary(node_data')]
    /\ pc' = "read_fs"
    /\ UNCHANGED <<fsVars, storeVars, variant, ctor_variant, stageVars, unaffVars,
                   exc, runs, trackVars>>

\* the except clause of read_fs, line 258
read_fs_OSError(py_file) == (py_file :> [list |-> <<-2>>]) @@ mtimes

\* read_fs, lines 254-255 for py_file: getmtime and the comparison
read_fs_getmtime(py_file) ==
    /\ pc = "read_fs"
    /\ py_file \in loc.todo
    /\ IF ~exists(py_file)
       THEN /\ mtimes' = read_fs_OSError(py_file)
            /\ loc' = [todo |-> loc.todo \ {py_file}]
            /\ pc' = pc
       ELSE /\ mtimes' = mtimes
            /\ IF Get(mtimes, py_file) # getmtime(py_file)
               THEN /\ loc' = [todo |-> loc.todo, file |-> py_file,
                               new_mtime |-> getmtime(py_file)]
                    /\ pc' = "read_fs_parse"
               ELSE /\ loc' = [todo |-> loc.todo \ {py_file}]
                    /\ pc' = pc
    /\ UNCHANGED <<fsVars, storeVars, variant, ctor_variant, node_data, reports,
                   lastfailed, stageVars, unaffVars, exc, runs, trackVars>>

\* read_fs, line 256: parse_file(py_file, new_mtime).  Modification times
\* are positive, so `new_mtime if new_mtime else ...` is new_mtime.
read_fs_parse ==
    /\ pc = "read_fs_parse"
    /\ IF loc.file \in DOMAIN changed_files
       THEN UNCHANGED <<changed_files, changed_mtimes, mtimes>>
       ELSE IF ~exists(loc.file)
            THEN /\ mtimes' = read_fs_OSError(loc.file)
                 /\ UNCHANGED <<changed_files, changed_mtimes>>
            ELSE /\ changed_files' = (loc.file :> Module(loc.file)) @@ changed_files
                 /\ changed_mtimes' = (loc.file :> loc.new_mtime) @@ changed_mtimes
                 /\ mtimes' = mtimes
    /\ loc' = [todo |-> loc.todo \ {loc.file}]
    /\ pc' = "read_fs"
    /\ UNCHANGED <<fsVars, storeVars, variant, ctor_variant, node_data, reports,
                   lastfailed, changed_node_data, changed_reports, unaffVars, exc,
                   runs, trackVars>>

\* compute_unaffected: a KeyError of unaffected leaves the attributes unset
compute_unaffected ==
    LET r == unaffected(node_data, changed_files)
    IN IF r.raised
       THEN /\ exc' = "KeyError"
            /\ pc' = "raised"
            /\ UNCHANGED unaffVars
       ELSE /\ unaffected_nodeids' = r.nodes
            /\ unaffected_files' = r.files
            /\ exc' = "none"
            /\ pc' = "ready"

\* read_fs, line 260, once the loop is over
read_fs_finish ==
    /\ pc = "read_fs"
    /\ loc.todo = {}
    /\ compute_unaffected
    /\ loc' = <<>>
    /\ UNCHANGED <<fsVars, storeVars, memVars, stageVars, runs, trackVars>>

\* test_should_run that selects only the tests the index has a record of
test_should_run_known_only(nodeid) ==
    nodeid \in DOMAIN node_data /\ nodeid \notin DOMAIN unaffected_nodeids

\* test_should_run(nodeid), for an index whose read_fs has returned
test_should_run(nodeid) == nodeid \notin DOMAIN unaffected_nodeids

----------------------------------------------------------------------------
(* TestmonData: set_dependencies and parse_file *)

\* the locals of one tracked call
TrackLoc(n) == [nodeid |-> n, pending |-> FALSE, todo |-> {}, result |-> <<>>,
                file |-> "", lines |-> {}, sentinel |-> FALSE]

\* set_dependencies, line 237 (and 240): the fold of the parsed module
fold_into(result, filename, lines) ==
    (filename :> checksum_coverage(changed_files[filename].blocks, lines)) @@ result

\* parse_file(file), first half (lines 244-245), then the fold when the file
\* was already parsed by this index
sd_parse(filename, lines, rest) ==
    IF filename \in DOMAIN changed_files
    THEN /\ loc' = [loc EXCEPT !.todo = rest,
                               !.result = fold_into(loc.result, filename, lines)]
         /\ events' = events \o <<"fold">>
         /\ pc' = pc
         /\ exc' = exc
         /\ UNCHANGED changed_files
    ELSE IF ~exists(filename)
         THEN \* Module(file_name) of a missing file: the error leaves track
              /\ exc' = "OSError"
              /\ pc' = "ready"
              /\ loc' = <<>>
              /\ events' = <<>>
              /\ UNCHANGED changed_files
         ELSE /\ changed_files' = (filename :> Module(filename)) @@ changed_files
              /\ loc' = [loc EXCEPT !.todo = rest, !.file = filename, !.lines = lines]
              /\ events' = events \o <<"parse">>
              /\ pc' = "parse_file_mtime"
              /\ exc' = exc

\* set_dependencies, lines 234-237, for one measured file
set_dependencies_file(filename) ==
    /\ pc = "set_dependencies"
    /\ filename \in loc.todo
    /\ IF exists(filename)
       THEN sd_parse(filename, tm.data[filename], loc.todo \ {filename})
       ELSE /\ loc' = [loc EXCEPT !.todo = loc.todo \ {filename}]
            /\ UNCHANGED <<changed_files, events, pc, exc>>
    /\ UNCHANGED <<fsVars, storeVars, memVars, changed_node_data, changed_reports,
                   changed_mtimes, unaffVars, runs, tm, environ, rcfiles, peer>>

\* parse_file(file), second half (line 246): os.path.getmtime(file), then
\* the fold of line 237 (or 240)
parse_file_mtime ==
    /\ pc = "parse_file_mtime"
    /\ IF ~exists(loc.file)
       THEN /\ exc' = "OSError"
            /\ pc' = "ready"
            /\ loc' = <<>>
            /\ events' = <<>>
            /\ UNCHANGED changed_mtimes
       ELSE /\ changed_mtimes' = (loc.file :> getmtime(loc.file)) @@ changed_mtimes
            /\ loc' = [loc EXCEPT !.result = fold_into(loc.result, loc.file, loc.lines)]
            /\ events' = events \o <<"fold">>
            /\ pc' = "set_dependencies"
            /\ exc' = exc
    /\ UNCHANGED <<fsVars, storeVars, memVars, changed_files, changed_node_data,
                   changed_reports, unaffVars, runs, tm, environ, rcfiles, peer>>

\* set_dependencies, lines 238-240: the entry for the test's own source file
set_dependencies_sentinel ==
    /\ pc = "set_dependencies"
    /\ loc.todo = {}
    /\ DOMAIN loc.result = {}
    /\ sd_parse(NodeFile(loc.nodeid), {1}, {})
    /\ UNCHANGED <<fsVars, storeVars, memVars, changed_node_data, changed_reports,
                   changed_mtimes, unaffVars, runs, tm, environ, rcfiles, peer>>

\* set_dependencies staging the record and also writing it to the table
set_dependencies_stage_persisting ==
    /\ pc = "set_dependencies"
    /\ loc.todo = {}
    /\ DOMAIN loc.result # {}
    /\ changed_node_data' = (loc.nodeid :> loc.result) @@ changed_node_data
    /\ alldata' = _write_attribute(alldata, variant, "node_data",
                                   changed_node_data' @@ node_data)
    /\ events' = events \o <<"stage">>
    /\ pc' = "return"
    /\ UNCHANGED <<fsVars, txn, datafile, memVars, changed_files, changed_reports,
                   changed_mtimes, unaffVars, loc, exc, runs, tm, environ, rcfiles, peer>>

\* set_dependencies, line 241
set_dependencies_stage ==
    /\ pc = "set_dependencies"
    /\ loc.todo = {}
    /\ DOMAIN loc.result # {}
    /\ changed_node_data' = (loc.nodeid :> loc.result) @@ changed_node_data
    /\ events' = events \o <<"stage">>
    /\ pc' = "return"
    /\ UNCHANGED <<fsVars, storeVars, memVars, changed_files, changed_reports,
                   changed_mtimes, unaffVars, loc, exc, runs, tm, environ, rcfiles, peer>>

\* track_dependencies, after the finally clause: the exception of
\* callable_to_track, if any, goes on to the caller
track_dependencies_return ==
    /\ pc = "return"
    /\ exc' = IF loc.pending THEN "TestError" ELSE "none"
    /\ pc' = "ready"
    /\ loc' = <<>>
    /\ events' = <<>>
    /\ UNCHANGED <<fsVars, storeVars, memVars, stageVars, unaffVars, runs, tm,
                   environ, rcfiles, peer>>

----------------------------------------------------------------------------
(* Testmon: the tracking session *)

\* the names random.randint gives the session's data file
CovFileNames == {"cov1", "cov2"}

\* what the tracer may report for one call: measured file -> executed lines
CovChoices ==
    {<<>>, "a.py" :> {1}, "a.py" :> {}, ("a.py" :> {1}) @@ ("t.py" :> {1})}

\* __init__, setup_coverage and setup_subprocess
Testmon_init(subprocess, name) ==
    /\ pc = "ready"
    /\ tm = Unset
    /\ IF subprocess
       THEN /\ rcfiles' = rcfiles \cup {name}
            /\ environ' = Str(name)
            /\ tm' = [running |-> FALSE, data |-> <<>>, sub_cov_file |-> Str(name)]
       ELSE /\ tm' = [running |-> FALSE, data |-> <<>>, sub_cov_file |-> Unset]
            /\ UNCHANGED <<rcfiles, environ>>
    /\ UNCHANGED <<fsVars, storeVars, pc, memVars, stageVars, unaffVars, loc, exc,
                   runs, events, peer>>

\* the tracer's data after the lines of `more` are added to it
add_lines(data, more) ==
    [f \in DOMAIN data \cup DOMAIN more |->
        (IF f \in DOMAIN data THEN data[f] ELSE {})
        \cup (IF f \in DOMAIN more THEN more[f] ELSE {})]

\* start() that starts the tracer without erasing its data
start_no_erase(nodeid, fails) ==
    /\ pc = "ready"
    /\ tm # Unset
    /\ IF fails
       THEN /\ exc' = "TracerFailure"
            /\ UNCHANGED <<tm, pc, loc>>
            /\ events' = <<>>
       ELSE /\ tm' = [tm EXCEPT !.running = TRUE]
            /\ events' = <<"erase", "start">>
            /\ loc' = TrackLoc(nodeid)
            /\ exc' = "none"
            /\ pc' = "callable_to_track"
    /\ UNCHANGED <<fsVars, storeVars, memVars, stageVars, unaffVars, runs, environ,
                   rcfiles, peer>>

\* track_dependencies, line 87: start() erases and starts the tracer; an
\* error of the tracer goes to the caller before the try
start(nodeid, fails) ==
    /\ pc = "ready"
    /\ tm # Unset
    /\ IF fails
       THEN /\ exc' = "TracerFailure"
            /\ UNCHANGED <<tm, pc, loc>>
            /\ events' = <<>>
       ELSE /\ tm' = [tm EXCEPT !.running = TRUE, !.data = <<>>]
            /\ events' = <<"erase", "start">>
            /\ loc' = TrackLoc(nodeid)
            /\ exc' = "none"
            /\ pc' = "callable_to_track"
    /\ UNCHANGED <<fsVars, storeVars, memVars, stageVars, unaffVars, runs, environ,
                   rcfiles, peer>>

\* track_dependencies without its finally clause: a raising test goes
\* straight back to the caller
callable_to_track_no_finally(cov, raises) ==
    /\ pc = "callable_to_track"
    /\ tm' = [tm EXCEPT !.data = add_lines(tm.data, cov)]
    /\ IF raises
       THEN /\ pc' = "ready" /\ exc' = "TestError" /\ loc' = <<>> /\ events' = <<>>
       ELSE /\ pc' = "stop" /\ exc' = exc /\ loc' = loc
            /\ events' = events \o <<"run">>
    /\ UNCHANGED <<fsVars, storeVars, memVars, stageVars, unaffVars, runs,
                   environ, rcfiles, peer>>

\* track_dependencies, line 89: the test runs, the running tracer adds the
\* lines cov it executes to its data, and the test may raise
callable_to_track(cov, raises) ==
    /\ pc = "callable_to_track"
    /\ tm' = [tm EXCEPT !.data = add_lines(tm.data, cov)]
    /\ loc' = [loc EXCEPT !.pending = raises]
    /\ events' = events \o <<"run">>
    /\ pc' = "stop"
    /\ UNCHANGED <<fsVars, storeVars, memVars, stageVars, unaffVars, exc, runs,
                   environ, rcfiles, peer>>

\* stop_and_save that goes on to save without stopping the tracer
stop_not_stopping(fails) ==
    /\ pc = "stop"
    /\ IF fails
       THEN /\ exc' = "TracerFailure"
            /\ pc' = "ready"
            /\ loc' = <<>>
            /\ events' = <<>>
            /\ UNCHANGED tm
       ELSE /\ tm' = tm
            /\ events' = events \o <<"stop">>
            /\ exc' = exc
            /\ IF tm.sub_cov_file # Unset
               THEN /\ pc' = "combine"
                    /\ loc' = loc
               ELSE /\ pc' = "set_dependencies"
                    /\ loc' = [loc EXCEPT !.todo = DOMAIN tm.data]
    /\ UNCHANGED <<fsVars, storeVars, memVars, stageVars, unaffVars, runs, environ,
                   rcfiles, peer>>

\* stop_and_save going on to save after the tracer's stop has failed
stop_swallowing(fails) ==
    /\ pc = "stop"
    /\ tm' = [tm EXCEPT !.running = FALSE]
    /\ events' = events \o <<"stop">>
    /\ exc' = IF fails THEN "TracerFailure" ELSE exc
    /\ IF tm.sub_cov_file # Unset
       THEN /\ pc' = "combine"
            /\ loc' = loc
       ELSE /\ pc' = "set_dependencies"
            /\ loc' = [loc EXCEPT !.todo = DOMAIN tm.data]
    /\ UNCHANGED <<fsVars, storeVars, memVars, stageVars, unaffVars, runs, environ,
                   rcfiles, peer>>

\* stop_and_save, line 103: stop(); line 107 reads the measured files
stop(fails) ==
    /\ pc = "stop"
    /\ IF fails
       THEN /\ exc' = "TracerFailure"
            /\ pc' = "ready"
            /\ loc' = <<>>
            /\ events' = <<>>
            /\ UNCHANGED tm
       ELSE /\ tm' = [tm EXCEPT !.running = FALSE]
            /\ events' = events \o <<"stop">>
            /\ exc' = exc
            /\ IF tm.sub_cov_file # Unset
               THEN /\ pc' = "combine"
                    /\ loc' = loc
               ELSE /\ pc' = "set_dependencies"
                    /\ loc' = [loc EXCEPT !.todo = DOMAIN tm.data]
    /\ UNCHANGED <<fsVars, storeVars, memVars, stageVars, unaffVars, runs, environ,
                   rcfiles, peer>>

\* stop_and_save, line 105: combine() adds the data of the child processes
combine(child, fails) ==
    /\ pc = "combine"
    /\ IF fails
       THEN /\ exc' = "TracerFailure"
            /\ pc' = "ready"
            /\ loc' = <<>>
            /\ events' = <<>>
            /\ UNCHANGED tm
       ELSE /\ tm' = [tm EXCEPT !.data = add_lines(tm.data, child)]
            /\ events' = events \o <<"combine">>
            /\ exc' = exc
            /\ pc' = "set_dependencies"
            /\ loc' = [loc EXCEPT !.todo = DOMAIN tm'.data]
    /\ UNCHANGED <<fsVars, storeVars, memVars, stageVars, unaffVars, runs, environ,
                   rcfiles, peer>>

\* close: os.remove of the configuration file (OSError when it is not
\* there), then os.environ.pop; the caller drops the object
close ==
    /\ pc \in {"ready", "flushed"}
    /\ tm # Unset
    /\ IF tm.sub_cov_file # Unset /\ tm.sub_cov_file.str \notin rcfiles
       THEN /\ exc' = "OSError"
            /\ UNCHANGED <<rcfiles, environ, tm>>
       ELSE /\ rcfiles' = IF tm.sub_cov_file # Unset
                          THEN rcfiles \ {tm.sub_cov_file.str}
                          ELSE rcfiles
            /\ environ' = Unset
            /\ tm' = Unset
            /\ exc' = exc
    /\ UNCHANGED <<fsVars, storeVars, pc, memVars, stageVars, unaffVars, loc, runs,
                   events, peer>>

----------------------------------------------------------------------------
(* TestmonData.write_data *)

\* write_data merging the staged records file by file into the loaded ones
write_data_begin_deep ==
    /\ pc = "ready"
    /\ mtimes' = changed_mtimes @@ mtimes
    /\ node_data' = [t \in DOMAIN changed_node_data \cup DOMAIN node_data |->
                        IF t \in DOMAIN changed_node_data /\ t \in DOMAIN node_data
                        THEN changed_node_data[t] @@ node_data[t]
                        ELSE (changed_node_data @@ node_data)[t]]
    /\ reports' = changed_reports @@ reports
    /\ loc' = [towrite |-> <<"mtimes", "node_data", "lastfailed", "reports">>]
    /\ pc' = "write_data"
    /\ UNCHANGED <<fsVars, storeVars, variant, ctor_variant, lastfailed, stageVars,
                   unaffVars, exc, runs, trackVars>>

\* write_data, lines 205-208: the transaction opens and the staged changes
\* are merged into the loaded maps
write_data_begin ==
    /\ pc = "ready"
    /\ mtimes' = changed_mtimes @@ mtimes
    /\ node_data' = changed_node_data @@ node_data
    /\ reports' = changed_reports @@ reports
    /\ loc' = [towrite |-> <<"mtimes", "node_data", "lastfailed", "reports">>]
    /\ pc' = "write_data"
    /\ UNCHANGED <<fsVars, storeVars, variant, ctor_variant, lastfailed, stageVars,
                   unaffVars, exc, runs, trackVars>>

\* the value write_data writes for an attribute
AttributeValue(attribute) ==
    CASE attribute = "mtimes" -> mtimes
      [] attribute = "node_data" -> node_data
      [] attribute = "lastfailed" -> lastfailed
      [] OTHER -> reports

\* one _write_attribute on a connection that commits every statement
write_data_attribute_autocommit ==
    /\ pc = "write_data"
    /\ loc.towrite # <<>>
    /\ alldata' = _write_attribute(alldata, variant, Head(loc.towrite),
                                   AttributeValue(Head(loc.towrite)))
    /\ loc' = [towrite |-> Tail(loc.towrite)]
    /\ UNCHANGED <<fsVars, txn, datafile, pc, memVars, stageVars, unaffVars, exc,
                   runs, trackVars>>

\* write_data, lines 209-212: one _write_attribute, inside the transaction
write_data_attribute ==
    /\ pc = "write_data"
    /\ loc.towrite # <<>>
    /\ txn' = _write_attribute(View, variant, Head(loc.towrite),
                               AttributeValue(Head(loc.towrite)))
    /\ loc' = [towrite |-> Tail(loc.towrite)]
    /\ UNCHANGED <<fsVars, alldata, datafile, pc, memVars, stageVars, unaffVars, exc,
                   runs, trackVars>>

\* the end of the with block: the connection commits
write_data_commit ==
    /\ pc = "write_data"
    /\ loc.towrite = <<>>
    /\ alldata' = View
    /\ txn' = <<>>
    /\ loc' = <<>>
    /\ pc' = "flushed"
    /\ UNCHANGED <<fsVars, datafile, memVars, stageVars, unaffVars, exc, runs,
                   trackVars>>

\* a statement of the with block fails: the connection rolls back and the
\* error goes to the caller
write_data_error ==
    /\ pc = "write_data"
    /\ txn' = <<>>
    /\ exc' = "StoreIOError"
    /\ pc' = "raised"
    /\ UNCHANGED <<fsVars, alldata, datafile, memVars, stageVars, unaffVars, loc,
                   runs, trackVars>>

\* the hosting process ends, at any point: its objects and its open
\* transaction are gone, the files stay
Exit ==
    /\ pc # "idle"
    /\ pc' = "idle"
    /\ txn' = <<>>
    /\ variant' = "default" /\ ctor_variant' = None
    /\ mtimes' = <<>> /\ node_data' = <<>> /\ reports' = <<>> /\ lastfailed' = <<>>
    /\ changed_files' = <<>> /\ changed_node_data' = <<>>
    /\ changed_reports' = <<>> /\ changed_mtimes' = <<>>
    /\ unaffected_nodeids' = Unset /\ unaffected_files' = Unset
    /\ loc' = <<>>
    /\ exc' = "none"
    /\ tm' = Unset
    /\ environ' = Unset
    /\ events' = <<>>
    /\ peer' = Unset
    /\ UNCHANGED <<fsVars, alldata, datafile, runs, rcfiles>>

\* the source tree changes under the process
Edit(f, r) ==
    /\ EditFile(f, r)
    /\ UNCHANGED <<storeVars, pc, memVars, stageVars, unaffVars, loc, exc, runs,
                   trackVars>>

Delete(f) ==
    /\ DeleteFile(f)
    /\ UNCHANGED <<storeVars, pc, memVars, stageVars, unaffVars, loc, exc, runs,
                   trackVars>>

----------------------------------------------------------------------------
(* The index over a changing source tree *)

Init ==
    /\ fs = [f \in Files |-> [exists |-> TRUE, mtime |-> 1, rev |-> 1]]
    /\ clock = 1
    /\ alldata = <<>> /\ txn = <<>> /\ datafile = FALSE
    /\ pc = "idle"
    /\ variant = "default" /\ ctor_variant = None
    /\ mtimes = <<>> /\ node_data = <<>> /\ reports = <<>> /\ lastfailed = <<>>
    /\ changed_files = <<>> /\ changed_node_data = <<>>
    /\ changed_reports = <<>> /\ changed_mtimes = <<>>
    /\ unaffected_nodeids = Unset /\ unaffected_files = Unset
    /\ loc = <<>>
    /\ exc = "none"
    /\ runs = 0
    /\ tm = Unset /\ environ = Unset /\ rcfiles = {} /\ events = <<>>
    /\ peer = Unset

Next ==
    \/ TestmonData_init(None)
    \/ read_data
    \/ \E f \in Files : read_fs_getmtime(f)
    \/ read_fs_parse
    \/ read_fs_finish
    \/ \E name \in CovFileNames : Testmon_init(FALSE, name)
    \/ \E n \in RunTests : start(n, FALSE)
    \/ \E cov \in CovChoices : callable_to_track(cov, FALSE)
    \/ stop(FALSE)
    \/ \E f \in Files : set_dependencies_file(f)
    \/ parse_file_mtime
    \/ set_dependencies_sentinel
    \/ set_dependencies_stage
    \/ track_dependencies_return
    \/ write_data_begin
    \/ write_data_attribute
    \/ write_data_commit
    \/ Exit
    \/ \E f \in Files, r \in Revs : pc = "idle" /\ Edit(f, r)
    \/ \E f \in Files : pc = "idle" /\ Delete(f)

Spec == Init /\ [][Next]_vars

----------------------------------------------------------------------------
(* The change analyzer alone: unaffected on bounded inputs *)

Checksums == 1..NumChecksums

\* the lists of checksums a record or a fingerprint may hold, in block order
ChecksumLists ==
    {s \in UNION {[1..k -> Checksums] : k \in 0..NumChecksums} :
        \A i \in DOMAIN s, j \in DOMAIN s : i < j => s[i] < s[j]}

TestRecords == UNION {[D -> ChecksumLists] : D \in SUBSET Files}
NodeDataInputs == UNION {[D -> TestRecords] : D \in SUBSET Nodeids}
ModuleInputs == {MkModule([i \in DOMAIN s |-> Block(i, i, s[i])]) : s \in ChecksumLists}
ChangedFilesInputs == UNION {[D -> ModuleInputs] : D \in SUBSET Files}

\* an index that has loaded nd and parsed cf, about to call compute_unaffected
InitUnaffected ==
    /\ fs = [f \in Files |-> [exists |-> TRUE, mtime |-> 1, rev |-> 1]]
    /\ clock = 1
    /\ alldata = <<>> /\ txn = <<>> /\ datafile = TRUE
    /\ pc = "read_fs"
    /\ variant = "default" /\ ctor_variant = None
    /\ mtimes = <<>> /\ reports = <<>> /\ lastfailed = <<>>
    /\ node_data \in NodeDataInputs
    /\ changed_files \in ChangedFilesInputs
    /\ changed_node_data = <<>> /\ changed_reports = <<>> /\ changed_mtimes = <<>>
    /\ unaffected_nodeids = Unset /\ unaffected_files = Unset
    /\ loc = [todo |-> {}]
    /\ exc = "none"
    /\ runs = 1
    /\ tm = Unset /\ environ = Unset /\ rcfiles = {} /\ events = <<>>
    /\ peer = Unset

NextUnaffected == read_fs_finish

SpecUnaffected == InitUnaffected /\ [][NextUnaffected]_vars

\* the tests of nd whose recorded checksums are all still in the current
\* fingerprint of every changed file they name
StillContained(nd, cf) ==
    {t \in DOMAIN nd :
        \A f \in DOMAIN nd[t] \cap DOMAIN cf :
            RangeS(nd[t][f]) \subseteq RangeS(checksums(cf[f]))}

\* C1: for every index snapshot and every map of current fingerprints,
\* unaffected returns, and the tests it returns as unaffected are exactly
\* those whose recorded checksums are contained, for every changed file they
\* name, in the file's current checksums.
C1_UnaffectedExactlyContained ==
    pc # "read_fs" =>
        /\ exc = "none"
        /\ unaffected_nodeids # Unset
        /\ DOMAIN unaffected_nodeids = StillContained(node_data, changed_files)
        /\ \A t \in DOMAIN unaffected_nodeids : unaffected_nodeids[t] = node_data[t]

----------------------------------------------------------------------------
(* Claims about the index over a changing source tree (Spec) *)

\* the index has returned from read_fs and holds the committed records
AfterReadFs == pc = "ready" /\ unaffected_nodeids # Unset

\* C2: every test that read_fs classifies as unaffected has every checksum
\* of its committed record still present in the current fingerprint of the
\* file on disk (stated for the files of the record that exist).
C2_UnaffectedStillPresent ==
    AfterReadFs =>
        \A t \in DOMAIN node_data :
            ~test_should_run(t) =>
                \A f \in DOMAIN node_data[t] :
                    exists(f) =>
                        RangeS(node_data[t][f]) \subseteq RangeS(checksums(Module(f)))

\* C3: when a file named in a committed record no longer exists at read_fs,
\* every test whose record names it is classified affected (stated for the
\* tests that recorded at least one checksum of the file).
C3_DeletedFileAffects ==
    AfterReadFs =>
        \A t \in DOMAIN node_data :
            (\E f \in DOMAIN node_data[t] : ~exists(f) /\ node_data[t][f] # <<>>)
                => test_should_run(t)

\* C8: no row of the table changes except by the commit that ends
\* write_data; when the process ends before that commit, the rows are those
\* of the previous flush and what was staged is gone.
C8_PersistedOnlyByFlush ==
    [][/\ alldata' # alldata => (pc = "write_data" /\ pc' = "flushed")
       /\ (pc' = "idle" /\ pc # "idle") =>
            /\ alldata' = alldata
            /\ txn' = <<>>
            /\ changed_node_data' = <<>> /\ changed_mtimes' = <<>>
            /\ changed_files' = <<>> /\ changed_reports' = <<>>]_vars

\* a record is staged over an existing store that does not hold it
C8_StagedOverStore ==
    /\ pc = "return"
    /\ DOMAIN alldata # {}
    /\ Get(_fetch_attribute(alldata, variant, "node_data", <<>>), loc.nodeid)
         # changed_node_data[loc.nodeid]

----------------------------------------------------------------------------
(* The tracking session: one process tracking tests over a new store, the
   tracer and the tests failing at will, source files deleted under it *)

\* the state after TestmonData(rootdir) and read_fs() over a new store
InitTrack ==
    /\ fs = [f \in Files |-> [exists |-> TRUE, mtime |-> 1, rev |-> 1]]
    /\ clock = 1
    /\ alldata = <<>> /\ txn = <<>> /\ datafile = TRUE
    /\ pc = "ready"
    /\ variant = "default" /\ ctor_variant = None
    /\ mtimes = <<>> /\ node_data = <<>> /\ reports = <<>> /\ lastfailed = <<>>
    /\ changed_files = <<>> /\ changed_node_data = <<>>
    /\ changed_reports = <<>> /\ changed_mtimes = <<>>
    /\ unaffected_nodeids = <<>> /\ unaffected_files = <<>>
    /\ loc = <<>>
    /\ exc = "none"
    /\ runs = 1
    /\ tm = Unset /\ environ = Unset /\ rcfiles = {} /\ events = <<>>
    /\ peer = Unset

NextTrack ==
    \/ \E subprocess \in BOOLEAN, name \in CovFileNames : Testmon_init(subprocess, name)
    \/ \E n \in Nodeids, fails \in BOOLEAN : start(n, fails)
    \/ \E cov \in CovChoices, raises \in BOOLEAN : callable_to_track(cov, raises)
    \/ \E fails \in BOOLEAN : stop(fails)
    \/ \E child \in CovChoices, fails \in BOOLEAN : combine(child, fails)
    \/ \E f \in Files : set_dependencies_file(f)
    \/ parse_file_mtime
    \/ set_dependencies_sentinel
    \/ set_dependencies_stage
    \/ track_dependencies_return
    \/ close
    \/ write_data_begin
    \/ write_data_attribute
    \/ write_data_commit
    \/ \E f \in Files : Delete(f)

SpecTrack == InitTrack /\ [][NextTrack]_vars

\* the positions inside track_dependencies
TrackPcs == {"callable_to_track", "stop", "combine", "set_dependencies",
             "parse_file_mtime", "return"}

\* C4: the record staged by a track that completes is never made only of
\* empty checksum sets, and when no measured file has executed lines it is
\* exactly the entry {the test's own source file -> {checksum of its first
\* block}}.
C4_StagedRecordComplete ==
    pc = "return" =>
        LET rec == changed_node_data[loc.nodeid]
            own == NodeFile(loc.nodeid)
        IN /\ \E f \in DOMAIN rec : rec[f] # <<>>
           /\ (\A f \in DOMAIN tm.data : tm.data[f] = {}) =>
                /\ DOMAIN rec = {own}
                /\ rec[own] = <<changed_files[own].blocks[1].checksum>>

\* C5 as claimed: whenever the test raised, the call ends with the tracer
\* stopped, the record staged and the test's exception at the caller.
C5_RaiseAlwaysStaged ==
    [][(pc \in TrackPcs /\ loc.pending /\ pc' = "ready") =>
            /\ pc = "return"
            /\ ~tm'.running
            /\ loc.nodeid \in DOMAIN changed_node_data'
            /\ exc' = "TestError"]_vars

\* C5, amended: when the test raised, the call never ends before
\* stop_and_save is entered; if stop, combine and set_dependencies do not
\* raise, the tracer is stopped, the record is staged and the test's
\* exception reaches the caller; if one of them raises, its error reaches
\* the caller instead and nothing is staged.
C5_RaiseStagedUnlessTeardownRaises ==
    [][/\ (pc = "callable_to_track" /\ pc' # pc) => pc' = "stop"
       /\ (pc \in TrackPcs /\ loc.pending /\ pc' = "ready") =>
            IF pc = "return"
            THEN /\ ~tm'.running
                 /\ loc.nodeid \in DOMAIN changed_node_data'
                 /\ changed_node_data'[loc.nodeid] = loc.result
                 /\ exc' = "TestError"
            ELSE /\ exc' \in {"TracerFailure", "OSError"}
                 /\ changed_node_data' = changed_node_data]_vars

\* a raising test whose record is staged
C5_RaisedAndStaged == pc = "return" /\ loc.pending

\* the events of a tracked call, in order, up to the tracer's stop
TrackPrefix ==
    <<"erase", "start", "run", "stop">>
        \o (IF tm.sub_cov_file # Unset THEN <<"combine">> ELSE <<>>)

\* C6: within a tracked call the tracer is erased and started, the test
\* runs, the tracer is stopped (and combined in subprocess mode), the files
\* are parsed and folded, and the record is staged, in this order; nothing
\* is parsed or folded while the tracer runs and no flush is in progress.
C6_TrackOrder ==
    /\ pc \in TrackPcs =>
        /\ \A i \in DOMAIN events :
              IF i <= Len(TrackPrefix) THEN events[i] = TrackPrefix[i]
              ELSE \/ events[i] \in {"parse", "fold"}
                   \/ events[i] = "stage" /\ i = Len(events)
        /\ txn = <<>>
    /\ pc = "callable_to_track" => events = <<"erase", "start">> /\ tm.running
    /\ pc = "stop" => events = <<"erase", "start", "run">> /\ tm.running
    /\ pc = "combine" => events = <<"erase", "start", "run", "stop">> /\ ~tm.running
    /\ pc \in {"set_dependencies", "parse_file_mtime", "return"} =>
        /\ ~tm.running
        /\ Len(events) >= Len(TrackPrefix)
    /\ pc = "return" => events[Len(events)] = "stage"
    /\ pc \in {"set_dependencies", "parse_file_mtime"} => events[Len(events)] # "stage"

\* a tracked call in subprocess mode that parsed a file and staged its record
C6_SubprocessTrackStaged ==
    /\ pc = "return"
    /\ tm.sub_cov_file # Unset
    /\ \E i \in DOMAIN events : events[i] = "parse"

----------------------------------------------------------------------------
(* The store shared by indexes of several variants: sessions over a fixed
   source tree, each constructing an index under some variant, tracking,
   taking the runner's report, and flushing; a flush may fail *)

\* the variant argument of the constructor: absent, empty, or a name
VariantArgs == {None, Str(""), Str("default"), Str("py3")}

\* the tracer's measurements in these sessions
StoreCov == {<<>>, "a.py" :> {1}}

Outcomes == {"passed", "failed"}

\* the runner hands in the report of a test: the plugin stores it in
\* changed_reports and keeps lastfailed
record_report(nodeid, outcome) ==
    /\ pc = "ready"
    /\ tm = Unset
    /\ nodeid \notin DOMAIN changed_reports
    /\ changed_reports' = (nodeid :> outcome) @@ changed_reports
    /\ lastfailed' = IF outcome = "failed"
                     THEN IF nodeid \in RangeS(lastfailed) THEN lastfailed
                          ELSE Append(lastfailed, nodeid)
                     ELSE SelectSeq(lastfailed, LAMBDA n : n # nodeid)
    /\ UNCHANGED <<fsVars, storeVars, pc, variant, ctor_variant, mtimes, node_data,
                   reports, changed_files, changed_node_data, changed_mtimes,
                   unaffVars, loc, exc, runs, trackVars>>

NextStore ==
    \/ \E v \in VariantArgs : TestmonData_init(v)
    \/ read_data
    \/ \E f \in Files : read_fs_getmtime(f)
    \/ read_fs_finish
    \/ \E name \in CovFileNames : Testmon_init(FALSE, name)
    \/ \E n \in RunTests : start(n, FALSE)
    \/ \E cov \in StoreCov : callable_to_track(cov, FALSE)
    \/ stop(FALSE)
    \/ \E f \in Files : set_dependencies_file(f)
    \/ parse_file_mtime
    \/ set_dependencies_sentinel
    \/ set_dependencies_stage
    \/ track_dependencies_return
    \/ close
    \/ \E n \in RunTests, o \in Outcomes : record_report(n, o)
    \/ write_data_begin
    \/ write_data_attribute
    \/ write_data_commit
    \/ write_data_error
    \/ Exit

SpecStore == Init /\ [][NextStore]_vars

\* the row of table `rows` with key dataid, Unset when there is none
Row(rows, dataid) == IF dataid \in DOMAIN rows THEN rows[dataid] ELSE Unset

\* the four attributes as an index of variant v loads them from `rows`
Loaded(rows, v) ==
    [a \in Attributes |-> _fetch_attribute(rows, v, a, Default(a))]

\* the four attributes the index holds in memory
InMemory == [a \in Attributes |-> AttributeValue(a)]

\* C7: the table changes only in the step that ends write_data, and then
\* all four rows of the active variant hold the post-flush values; while
\* the writes go on and when one of them fails the table holds the
\* pre-flush rows, and no write stays pending outside write_data.
C7_FlushAtomic ==
    [][/\ alldata' # alldata =>
            /\ pc = "write_data" /\ pc' = "flushed"
            /\ \A a \in Attributes : DataId(variant, a) \in DOMAIN alldata'
            /\ Loaded(alldata', variant) = InMemory
       /\ (pc = "write_data" /\ pc' # "flushed") => alldata' = alldata
       /\ pc' # "write_data" => txn' = <<>>]_vars

\* a flush that failed after its first write: memory holds the merged maps,
\* the table the pre-flush rows
C7_FailedFlushRolledBack ==
    /\ pc = "raised" /\ exc = "StoreIOError"
    /\ Len(loc.towrite) < 4
    /\ DOMAIN alldata # {}
    /\ Loaded(alldata, variant) # InMemory

\* C9: after a flush, what a new index of the same variant loads from the
\* table is what the flushing index holds in memory; and whatever read_data
\* loads for an attribute without a row is the empty default.
C9_FlushLoadRoundTrip ==
    [][/\ (pc = "write_data" /\ pc' = "flushed") =>
            Loaded(alldata', EffVariant(ctor_variant)) = InMemory'
       /\ (pc = "constructed" /\ pc' = "read_fs") =>
            \A a \in Attributes :
                DataId(variant, a) \notin DOMAIN alldata =>
                    InMemory'[a] = Default(a)]_vars

\* a second flush of a variant, with a record, a report and a failed test in
\* memory
C9_ReflushedWithData ==
    /\ pc = "flushed"
    /\ runs >= 2
    /\ node_data # <<>> /\ reports # <<>> /\ lastfailed # <<>> /\ mtimes # <<>>
    /\ changed_reports # <<>>

\* C10 as claimed: a flush of an index constructed with variant v1 leaves
\* the rows, and the load, of every other constructor variant v2 unchanged.
C10_DistinctArgsIsolated ==
    [][(pc = "write_data" /\ pc' = "flushed") =>
            \A v2 \in VariantArgs \ {ctor_variant} : \A a \in Attributes :
                Row(alldata', DataId(EffVariant(v2), a))
                    = Row(alldata, DataId(EffVariant(v2), a))]_vars

\* C10, amended: a flush of an index leaves unchanged the rows, and the
\* load, of every constructor variant whose stored name differs from the
\* index's own, where the stored name of an absent or empty variant is
\* 'default'.
C10_DistinctNamesIsolated ==
    [][(pc = "write_data" /\ pc' = "flushed") =>
            \A v2 \in VariantArgs : EffVariant(v2) # EffVariant(ctor_variant) =>
                /\ \A a \in Attributes :
                      Row(alldata', DataId(EffVariant(v2), a))
                          = Row(alldata, DataId(EffVariant(v2), a))
                /\ Loaded(alldata', EffVariant(v2)) = Loaded(alldata, EffVariant(v2))]_vars

\* a flush under 'py3' over a table that holds other data under 'default'
C10_TwoVariantsStored ==
    /\ pc = "flushed"
    /\ variant = "py3"
    /\ DataId("default", "node_data") \in DOMAIN alldata
    /\ Loaded(alldata, "default") # Loaded(alldata, "py3")
    /\ Loaded(alldata, "default")["node_data"] # <<>>
    /\ Loaded(alldata, "py3")["node_data"] # <<>>

----------------------------------------------------------------------------
(* collect_garbage on a loaded index *)

\* collect_garbage(allnodeids) is called
collect_garbage(allnodeids) ==
    /\ pc = "ready"
    /\ tm = Unset
    /\ loc' = [allnodeids |-> allnodeids]
    /\ pc' = "collect_garbage"
    /\ UNCHANGED <<fsVars, storeVars, memVars, stageVars, unaffVars, exc, runs,
                   trackVars>>

\* collect_garbage, line 270: `return` is its first statement; the two loops
\* below it are never executed
collect_garbage_return ==
    /\ pc = "collect_garbage"
    /\ loc' = <<>>
    /\ pc' = "ready"
    /\ UNCHANGED <<fsVars, storeVars, memVars, stageVars, unaffVars, exc, runs,
                   trackVars>>

\* the lists of failed tests an index may have loaded
LastFailedInputs ==
    {s \in UNION {[1..k -> Nodeids] : k \in 0..Cardinality(Nodeids)} :
        \A i \in DOMAIN s, j \in DOMAIN s : i # j => s[i] # s[j]}

\* an index that has loaded node_data and lastfailed and returned from read_fs
\* with no file changed
InitGc ==
    /\ fs = [f \in Files |-> [exists |-> TRUE, mtime |-> 1, rev |-> 1]]
    /\ clock = 1
    /\ alldata = <<>> /\ txn = <<>> /\ datafile = TRUE
    /\ pc = "ready"
    /\ variant = "default" /\ ctor_variant = None
    /\ mtimes = <<>> /\ reports = <<>>
    /\ node_data \in NodeDataInputs
    /\ lastfailed \in LastFailedInputs
    /\ changed_files = <<>>
    /\ changed_node_data = <<>> /\ changed_reports = <<>> /\ changed_mtimes = <<>>
    /\ unaffected_nodeids = node_data
    /\ unaffected_files = flip_dictionary(node_data)
    /\ loc = <<>>
    /\ exc = "none"
    /\ runs = 1
    /\ tm = Unset /\ environ = Unset /\ rcfiles = {} /\ events = <<>>
    /\ peer = Unset

NextGc ==
    \/ \E allnodeids \in SUBSET Nodeids : collect_garbage(allnodeids)
    \/ collect_garbage_return

SpecGc == InitGc /\ [][NextGc]_vars

\* C11: when collect_garbage(live) returns, no record and no lastfailed
\* entry has a test id outside live, and the records and lastfailed entries
\* of the tests in live are the ones held before the call.
C11_GcKeepsOnlyLive ==
    [][(pc = "collect_garbage" /\ pc' = "ready") =>
            /\ DOMAIN node_data' = DOMAIN node_data \cap loc.allnodeids
            /\ \A t \in DOMAIN node_data' : node_data'[t] = node_data[t]
            /\ lastfailed' = SelectSeq(lastfailed,
                                       LAMBDA n : n \in loc.allnodeids)]_vars

----------------------------------------------------------------------------
(* Runs over a source tree that is edited at any point, also while read_fs
   and set_dependencies are at work *)

NextRace ==
    \/ TestmonData_init(None)
    \/ read_data
    \/ \E f \in Files : read_fs_getmtime(f)
    \/ read_fs_parse
    \/ read_fs_finish
    \/ \E name \in CovFileNames : Testmon_init(FALSE, name)
    \/ \E n \in RunTests : start(n, FALSE)
    \/ \E cov \in StoreCov : callable_to_track(cov, FALSE)
    \/ stop(FALSE)
    \/ \E f \in Files : set_dependencies_file(f)
    \/ parse_file_mtime
    \/ set_dependencies_sentinel
    \/ set_dependencies_stage
    \/ track_dependencies_return
    \/ write_data_begin
    \/ write_data_attribute
    \/ write_data_commit
    \/ Exit
    \/ \E f \in Files, r \in Revs : Edit(f, r)

SpecRace == Init /\ [][NextRace]_vars

\* the files named in a committed or staged record
RecordedFiles ==
    DOMAIN flip_dictionary(node_data) \cup DOMAIN flip_dictionary(changed_node_data)

\* C12: for each file named in a committed or staged record that exists,
\* the mtime staged for it is the mtime of the revision the parser made its
\* fingerprint from: when the staged mtime is the file's mtime, the
\* fingerprint the index holds is the fingerprint of the file on disk.
C12_MTimeOfParsedRevision ==
    \A f \in RecordedFiles \cap DOMAIN changed_files \cap DOMAIN changed_mtimes :
        (exists(f) /\ changed_mtimes[f] = getmtime(f)) =>
            changed_files[f] = Module(f)

----------------------------------------------------------------------------
(* More about the change analyzer alone (SpecUnaffected) *)

\* cf2 maps each file of cf to a superset of its checksums in cf
Grows(cf, cf2) ==
    /\ DOMAIN cf2 = DOMAIN cf
    /\ \A f \in DOMAIN cf :
          RangeS(checksums(cf[f])) \subseteq RangeS(checksums(cf2[f]))

\* C13: every test that unaffected returns as unaffected under the current
\* fingerprints is returned as unaffected under any fingerprints that map
\* each file to a superset of its checksums.
C13_GrowthKeepsUnaffected ==
    (pc = "ready" /\ unaffected_nodeids # Unset) =>
        \A cf2 \in [DOMAIN changed_files -> ModuleInputs] :
            Grows(changed_files, cf2) =>
                LET r2 == unaffected(node_data, cf2)
                IN /\ ~r2.raised
                   /\ DOMAIN unaffected_nodeids \subseteq DOMAIN r2.nodes

\* a test found unaffected by a changed file it names, whose fingerprint
\* can still grow, next to a test the same change affects
C13_UnaffectedUnderGrowableFile ==
    /\ pc = "ready"
    /\ \E t \in DOMAIN unaffected_nodeids :
          \E f \in DOMAIN node_data[t] \cap DOMAIN changed_files :
              /\ node_data[t][f] # <<>>
              /\ Len(checksums(changed_files[f])) < NumChecksums
    /\ DOMAIN unaffected_nodeids # DOMAIN node_data

\* C18: unaffected returns normally for every index snapshot and every map
\* of current fingerprints.
C18_UnaffectedNeverRaises == pc # "raised" /\ exc # "KeyError"

----------------------------------------------------------------------------
(* Tracking sessions sharing one process: os.environ and the directory
   .tmontmp are the process's, not the session's *)

\* Testmon(...) constructed by other code of the process, between two calls
\* of this session or by the test it is tracking: __init__, setup_coverage
\* and setup_subprocess
Peer_init(subprocess, name) ==
    /\ pc \in {"ready", "callable_to_track"}
    /\ peer = Unset
    /\ IF subprocess
       THEN /\ rcfiles' = rcfiles \cup {name}
            /\ environ' = Str(name)
            /\ peer' = [sub_cov_file |-> Str(name)]
       ELSE /\ peer' = [sub_cov_file |-> Unset]
            /\ UNCHANGED <<rcfiles, environ>>
    /\ UNCHANGED <<fsVars, storeVars, pc, memVars, stageVars, unaffVars, loc, exc,
                   runs, tm, events>>

\* close of the other Testmon object
Peer_close ==
    /\ pc \in {"ready", "callable_to_track"}
    /\ peer # Unset
    /\ IF peer.sub_cov_file # Unset /\ peer.sub_cov_file.str \notin rcfiles
       THEN UNCHANGED <<rcfiles, environ, peer>>
       ELSE /\ rcfiles' = IF peer.sub_cov_file # Unset
                          THEN rcfiles \ {peer.sub_cov_file.str}
                          ELSE rcfiles
            /\ environ' = Unset
            /\ peer' = Unset
    /\ UNCHANGED <<fsVars, storeVars, pc, memVars, stageVars, unaffVars, loc, exc,
                   runs, tm, events>>

NextEnv ==
    \/ \E subprocess \in BOOLEAN, name \in CovFileNames : Testmon_init(subprocess, name)
    \/ \E n \in RunTests : start(n, FALSE)
    \/ \E cov \in StoreCov : callable_to_track(cov, FALSE)
    \/ stop(FALSE)
    \/ \E child \in StoreCov : combine(child, FALSE)
    \/ \E f \in Files : set_dependencies_file(f)
    \/ parse_file_mtime
    \/ set_dependencies_sentinel
    \/ set_dependencies_stage
    \/ track_dependencies_return
    \/ close
    \/ \E subprocess \in BOOLEAN, name \in CovFileNames : Peer_init(subprocess, name)
    \/ Peer_close

SpecEnv == InitTrack /\ [][NextEnv]_vars

\* C14: while a session constructed in subprocess mode is inside a tracked
\* call, COVERAGE_PROCESS_START names the session's own configuration file
\* and the file exists; when the session is closed the variable is unset and
\* the file is gone.
C14_BootstrapEnvOwned ==
    [][/\ (pc' \in TrackPcs /\ tm'.sub_cov_file # Unset) =>
            /\ environ' = tm'.sub_cov_file
            /\ tm'.sub_cov_file.str \in rcfiles'
       /\ (tm # Unset /\ tm' = Unset /\ tm.sub_cov_file # Unset) =>
            /\ environ' = Unset
            /\ tm.sub_cov_file.str \notin rcfiles']_vars

----------------------------------------------------------------------------
(* More about the tracking session (SpecTrack) *)

\* C15: an error of the tracer, in start, in stop or in combine, ends the
\* call with that error at the caller, and from the start of the call up to
\* there nothing is staged: the staged maps are the ones before the call.
C15_TracerErrorStagesNothing ==
    [][/\ (\/ pc \in {"stop", "combine"} /\ pc' = "ready"
           \/ exc' = "TracerFailure" /\ exc # "TracerFailure") =>
            /\ exc' = "TracerFailure"
            /\ pc \in {"ready", "stop", "combine"}
            /\ pc' = "ready"
            /\ UNCHANGED stageVars
       /\ pc \in {"callable_to_track", "stop", "combine"} => UNCHANGED stageVars]_vars

\* the tracer's stop or combine failed under a session that staged a record
\* before
C15_TracerFailedAfterStaging ==
    /\ pc = "ready"
    /\ exc = "TracerFailure"
    /\ tm # Unset
    /\ events = <<>>
    /\ changed_node_data # <<>>

----------------------------------------------------------------------------
(* Flushing over loaded records: an index that has loaded any table of
   records tracks tests and flushes *)

\* the rows of a store that holds the records nd under variant 'default'
StoreOf(nd) ==
    LET mt == [f \in DOMAIN flip_dictionary(nd) |-> Num(1)]
    IN _write_attribute(
         _write_attribute(
           _write_attribute(
             _write_attribute(<<>>, "default", "mtimes", mt),
             "default", "node_data", nd),
           "default", "lastfailed", <<>>),
         "default", "reports", <<>>)

\* TestmonData(rootdir) and read_fs() over the store of some records, the
\* files unchanged since they were recorded
InitMerge ==
    /\ fs = [f \in Files |-> [exists |-> TRUE, mtime |-> 1, rev |-> 1]]
    /\ clock = 1
    /\ node_data \in NodeDataInputs
    /\ alldata = StoreOf(node_data) /\ txn = <<>> /\ datafile = TRUE
    /\ pc = "ready"
    /\ variant = "default" /\ ctor_variant = None
    /\ mtimes = [f \in DOMAIN flip_dictionary(node_data) |-> Num(1)]
    /\ reports = <<>> /\ lastfailed = <<>>
    /\ changed_files = <<>>
    /\ changed_node_data = <<>> /\ changed_reports = <<>> /\ changed_mtimes = <<>>
    /\ unaffected_nodeids = node_data
    /\ unaffected_files = flip_dictionary(node_data)
    /\ loc = <<>>
    /\ exc = "none"
    /\ runs = 1
    /\ tm = [running |-> FALSE, data |-> <<>>, sub_cov_file |-> Unset]
    /\ environ = Unset /\ rcfiles = {} /\ events = <<>>
    /\ peer = Unset

NextMerge ==
    \/ \E n \in Nodeids : start(n, FALSE)
    \/ \E cov \in StoreCov : callable_to_track(cov, FALSE)
    \/ stop(FALSE)
    \/ \E f \in Files : set_dependencies_file(f)
    \/ parse_file_mtime
    \/ set_dependencies_sentinel
    \/ set_dependencies_stage
    \/ track_dependencies_return
    \/ write_data_begin
    \/ write_data_attribute
    \/ write_data_commit

SpecMerge == InitMerge /\ [][NextMerge]_vars

\* new is old with the records of staged put in place of, or next to, old's
Replaced(old, staged, new) ==
    /\ DOMAIN new = DOMAIN old \cup DOMAIN staged
    /\ \A t \in DOMAIN staged : new[t] = staged[t]
    /\ \A t \in DOMAIN old \ DOMAIN staged : new[t] = old[t]

\* C16: a flush puts, in memory and in the table, the latest record staged
\* for a test in place of the test's whole committed record, and leaves the
\* committed record of every test not staged as it was; the record staged
\* for a test is the result of the latest set_dependencies for it.
C16_WholeRecordReplacement ==
    [][/\ (pc = "ready" /\ pc' = "write_data") =>
            Replaced(node_data, changed_node_data, node_data')
       /\ (pc = "write_data" /\ pc' = "flushed") =>
            Replaced(Loaded(alldata, variant)["node_data"], changed_node_data,
                     Loaded(alldata', variant)["node_data"])
       /\ (pc = "set_dependencies" /\ pc' = "return") =>
            changed_node_data'[loc.nodeid] = loc.result]_vars

\* a flush replaced a committed record by a staged one that lacks one of its
\* files, next to a record that was not staged
C16_RecordShrunkByFlush ==
    /\ pc = "flushed"
    /\ \E t \in DOMAIN changed_node_data, f \in Files :
          /\ f \notin DOMAIN node_data[t]
          /\ f \in DOMAIN unaffected_files
          /\ t \in DOMAIN unaffected_files[f]
    /\ DOMAIN node_data # DOMAIN changed_node_data

\* C17: the tracer's data is empty when a test starts to run; what the
\* test's own run measures (and, in subprocess mode, what combine adds for
\* its child processes) is all the data holds when the record is computed,
\* and each entry of the staged record is the checksums of the lines that
\* data holds for the file (or the entry of the test's own file when no
\* measured file exists).
C17_RecordFromOwnRun ==
    [][/\ (pc = "ready" /\ pc' = "callable_to_track") => tm'.data = <<>>
       /\ (pc = "callable_to_track" /\ pc' = "stop") => tm'.data \in CovChoices
       /\ (pc = "stop" /\ pc' # "combine") => tm'.data = tm.data
       /\ pc \in {"set_dependencies", "parse_file_mtime", "return"} => tm'.data = tm.data
       /\ (pc = "set_dependencies" /\ pc' = "return") =>
            LET rec == changed_node_data'[loc.nodeid]
                own == NodeFile(loc.nodeid)
            IN \A f \in DOMAIN rec :
                  \/ /\ f \in DOMAIN tm.data
                     /\ rec[f] = checksum_coverage(changed_files[f].blocks, tm.data[f])
                  \/ /\ DOMAIN rec = {own}
                     /\ rec[f] = checksum_coverage(changed_files[f].blocks, {1})]_vars

\* the second test's record is staged without a file that the first test's
\* record holds
C17_LaterRecordWithoutEarlierFile ==
    /\ pc = "return"
    /\ loc.nodeid = "t.py::t2"
    /\ "t.py::t1" \in DOMAIN changed_node_data
    /\ "a.py" \in DOMAIN changed_node_data["t.py::t1"]
    /\ "a.py" \notin DOMAIN changed_node_data["t.py::t2"]

----------------------------------------------------------------------------
(* More about the index over a changing source tree (Spec) *)

\* C19: the in-memory mtimes change only when the index is constructed or
\* dropped, at the load and at the merge of a flush, never in the loop of
\* read_fs; and every value of the in-memory and of the persisted mtimes is
\* a modification time.
C19_MTimesOnlyLoadAndFlush ==
    [][/\ mtimes' # mtimes =>
            \/ pc = "idle" \/ pc' = "idle"
            \/ pc = "constructed" /\ pc' = "read_fs"
            \/ pc = "ready" /\ pc' = "write_data"
       /\ \A f \in DOMAIN mtimes' : IsNum(mtimes'[f])
       /\ \A f \in DOMAIN Loaded(alldata', variant')["mtimes"] :
             IsNum(Loaded(alldata', variant')["mtimes"][f])]_vars

\* C20: when read_fs returns, test_should_run is False exactly for the tests
\* that unaffected returns for the loaded records and the files read_fs
\* parsed, and True for every test without a loaded record; the answer stays
\* the same for as long as the index lives.
C20_ShouldRunIffNotUnaffected ==
    [][/\ (pc = "read_fs" /\ pc' = "ready") =>
            \A t \in Nodeids :
                /\ test_should_run(t)' <=>
                      (t \notin DOMAIN unaffected(node_data, changed_files).nodes)
                /\ t \notin DOMAIN node_data => test_should_run(t)'
       /\ (pc \notin {"idle", "constructed", "read_fs", "read_fs_parse"}
             /\ pc' # "idle") =>
            \A t \in Nodeids : test_should_run(t)' <=> test_should_run(t)]_vars

\* a later run in which the recorded test is unaffected and the test without
\* a record is selected
C20_RecordedSkippedNewSelected ==
    /\ pc = "ready"
    /\ runs >= 2
    /\ unaffected_nodeids # Unset
    /\ ~test_should_run("t.py::t1")
    /\ test_should_run("t.py::t2")
    /\ changed_files # <<>>

====
